---------------------------- MODULE Spec2Model ----------------------------
(***************************************************************************)
(* Model of the Kafka connector: the address codec (addr.rs), the topic    *)
(* planner (connector/plan.rs), the executor (connector/op_exec.rs) and    *)
(* the connector state guarded by reader-writer locks (connector.rs).      *)
(*                                                                         *)
(* Strings are sequences of one-character strings, so that formatting a    *)
(* path and parsing it back are computed character by character.           *)
(***************************************************************************)
EXTENDS Integers, Sequences, FiniteSets, TLC

VARIABLES
    codecPc,    \* address codec run: "input", "encoded", "decoded"
    codecIn,    \* the address or raw path handed to the codec
    codecPath,  \* the path being decoded
    codecOut,   \* the result of from_path
    planPc,     \* planner run: "input", "planned", "done", "failed", "rejected"
    current,    \* plan input: current topic payload (or None)
    desired,    \* plan input: desired topic payload (or None)
    planRes,    \* result of plan_topic
    live,       \* live topic state of the remote cluster in the planner run
    todo,       \* planned operations not yet executed
    lastOp,     \* the operation executed by the latest op_exec step
    reqPc,      \* do_plan / from_bytes run: "input", "planned", "parsed"
    reqPath,    \* the path handed to do_plan
    reqCur,     \* the current payload handed to do_plan (or None)
    reqDes,     \* the desired payload handed to do_plan (or None)
    reqRes,     \* result of do_plan
    reqParse,   \* result of from_bytes on the desired payload
    clients,    \* KafkaConnector.clients: the cluster names that have a client
    config,     \* KafkaConnector.config
    semaphore,  \* KafkaConnector.semaphore: the permits of the stored Semaphore
    lockR,      \* per RwLock: the set of tasks holding a read guard
    pc,         \* per task: its position inside the call it runs
    call,       \* per task: the call it runs
    pending,    \* per task running init: the config it built and has yet to store
    result,     \* per task: what its latest finished call returned
    cluster     \* per remote cluster: the state of its topic, or None

codecVars == <<codecPc, codecIn, codecPath, codecOut>>
planVars  == <<planPc, current, desired, planRes, live, todo, lastOp>>
reqVars   == <<reqPc, reqPath, reqCur, reqDes, reqRes, reqParse>>
connVars  == <<clients, config, semaphore, lockR, pc, call, pending, result, cluster>>
vars      == <<codecVars, planVars, reqVars, connVars>>

-----------------------------------------------------------------------------
(* Bounds *)
MaxNameLen    == 2   \* longest cluster name / identifier
MaxSegs       == 4   \* most segments after the first in a raw path
MaxPartitions == 3   \* largest partition count of a topic state
MaxReplication == 2  \* largest replication factor of a topic state

-----------------------------------------------------------------------------
(* Strings *)
KAFKA      == <<"k","a","f","k","a">>
TOPICS     == <<"t","o","p","i","c","s">>
ACLS       == <<"a","c","l","s">>
QUOTAS     == <<"q","u","o","t","a","s">>
RON_EXT    == <<".","r","o","n">>
CONFIG_RON == <<"c","o","n","f","i","g">> \o RON_EXT
TASK_RON   == <<"t","a","s","k">> \o RON_EXT
SLASH      == "/"
DOT        == "."
BadByte    == "0xFF"  \* a byte that is not valid UTF-8 (an OsStr may hold one)


-----------------------------------------------------------------------------
(* Address codec: addr.rs *)

\* KafkaResourceAddress; Config carries no strings.
Addr(kind, c, id) == [kind |-> kind, cluster |-> c, id |-> id]
ConfigAddr == Addr("Config", <<>>, <<>>)

Ok(a)      == [tag |-> "Ok", addr |-> a]
InvalidAddress == [tag |-> "Err", addr |-> ConfigAddr]
Panic      == [tag |-> "Panic", addr |-> ConfigAddr]
NoResult   == [tag |-> "None", addr |-> ConfigAddr]

Range(s) == {s[i] : i \in 1..Len(s)}

EndsWith(s, suf) ==
    /\ Len(s) >= Len(suf)
    /\ SubSeq(s, Len(s) - Len(suf) + 1, Len(s)) = suf

\* str::strip_suffix(..).unwrap_or(s)
StripSuffix(s, suf) ==
    IF EndsWith(s, suf) THEN SubSeq(s, 1, Len(s) - Len(suf)) ELSE s

\* format!("kafka/{cluster}/topics/{topic}.ron") and the like
ToPathBuf(a) ==
    CASE a.kind = "Config" -> KAFKA \o <<SLASH>> \o CONFIG_RON
      [] a.kind = "Topic"  -> KAFKA \o <<SLASH>> \o a.cluster \o <<SLASH>> \o TOPICS \o <<SLASH>> \o a.id \o RON_EXT
      [] a.kind = "Acl"    -> KAFKA \o <<SLASH>> \o a.cluster \o <<SLASH>> \o ACLS \o <<SLASH>> \o a.id \o RON_EXT
      [] a.kind = "Quota"  -> KAFKA \o <<SLASH>> \o a.cluster \o <<SLASH>> \o QUOTAS \o <<SLASH>> \o a.id \o RON_EXT
      [] OTHER             -> KAFKA \o <<SLASH>> \o TASK_RON

\* The pieces of a path between separators, empty pieces included.
RECURSIVE SplitAcc(_, _, _)
SplitAcc(s, i, cur) ==
    IF i > Len(s) THEN <<cur>>
    ELSE IF s[i] = SLASH THEN <<cur>> \o SplitAcc(s, i + 1, <<>>)
    ELSE SplitAcc(s, i + 1, Append(cur, s[i]))

Split(s) == SplitAcc(s, 1, <<>>)

\* Path::components(): a leading separator is the root component, empty
\* pieces are dropped, and a "." piece is dropped unless it starts the path.
RECURSIVE ComponentsFrom(_, _)
ComponentsFrom(segs, i) ==
    IF i > Len(segs) THEN <<>>
    ELSE IF segs[i] = <<>> \/ (segs[i] = <<DOT>> /\ i > 1)
         THEN ComponentsFrom(segs, i + 1)
         ELSE <<segs[i]>> \o ComponentsFrom(segs, i + 1)

Components(path) ==
    (IF Len(path) > 0 /\ path[1] = SLASH THEN <<(<<SLASH>>)>> ELSE <<>>)
        \o ComponentsFrom(Split(path), 1)

\* OsStr::to_str() is None for a component that is not valid UTF-8.
IsUtf8(comp) == BadByte \notin Range(comp)

FromPath(path) ==
    LET c == Components(path) IN
    IF \E i \in 1..Len(c) : ~IsUtf8(c[i]) THEN Panic   \* .to_str().unwrap()
    ELSE IF c = <<KAFKA, CONFIG_RON>> THEN Ok(ConfigAddr)
    ELSE IF Len(c) = 4 /\ c[1] = KAFKA /\ c[3] = TOPICS /\ EndsWith(c[4], RON_EXT)
         THEN Ok(Addr("Topic", c[2], StripSuffix(c[4], RON_EXT)))
    ELSE IF Len(c) = 4 /\ c[1] = KAFKA /\ c[3] = ACLS /\ EndsWith(c[4], RON_EXT)
         THEN Ok(Addr("Acl", c[2], StripSuffix(c[4], RON_EXT)))
    ELSE IF Len(c) = 4 /\ c[1] = KAFKA /\ c[3] = QUOTAS /\ EndsWith(c[4], RON_EXT)
         THEN Ok(Addr("Quota", c[2], StripSuffix(c[4], RON_EXT)))
    ELSE InvalidAddress

-----------------------------------------------------------------------------
(* Resource model: resource.rs *)

\* Option<T>: None is the empty sequence, Some(x) is <<x>>.
None    == <<>>
Some(x) == <<x>>

ConfigKeys == {"cleanup.policy", "retention.ms"}
ConfigVals == {"1000", "2000"}
KeyOrder   == <<"cleanup.policy", "retention.ms">>   \* String::cmp order of the keys

\* IndexMap<String, String>: a sequence of <<key, value>> with distinct keys,
\* in insertion order.
IndexMaps ==
    {<<>>}
    \cup {<< <<k, v>> >> : k \in ConfigKeys, v \in ConfigVals}
    \cup {m \in {<< <<k1, v1>>, <<k2, v2>> >> :
                    k1 \in ConfigKeys, k2 \in ConfigKeys, v1 \in ConfigVals, v2 \in ConfigVals} :
            m[1][1] # m[2][1]}

Keys(m)  == {m[i][1] : i \in 1..Len(m)}
Pairs(m) == Range(m)

\* IndexMap::get
MapGet(m, k) == IF k \in Keys(m) THEN Some((CHOOSE e \in Range(m) : e[1] = k)[2]) ELSE None

\* IndexMap's PartialEq (the `!=` of plan.rs:94 negates it): equal lengths
\* and every entry of one found in the other; order is not compared.
IndexMapEq(a, b) ==
    /\ Len(a) = Len(b)
    /\ \A i \in 1..Len(a) : MapGet(b, a[i][1]) = Some(a[i][2])

KafkaTopic(p, r, c) == [partitions |-> p, replication_factor |-> r, config |-> c]
DefaultTopic == KafkaTopic(1, 1, <<>>)

\* The topic states a cluster can hold: partitions > 0, replication_factor > 0.
TopicValues ==
    {KafkaTopic(p, r, c) : p \in 1..MaxPartitions, r \in 1..MaxReplication, c \in IndexMaps}

\* A RON document for a topic: each field written or left out, and possibly
\* a field the struct does not have.
Doc(p, r, c, extra) == [partitions |-> p, replication_factor |-> r, config |-> c, extra |-> extra]

\* KafkaResource::to_bytes for a topic: every field is written.
TopicToBytes(t) == Doc(Some(t.partitions), Some(t.replication_factor), Some(t.config), FALSE)

ParseOk(t) == [tag |-> "Ok", val |-> t]
ParseErr   == [tag |-> "Err", val |-> DefaultTopic]

\* The struct a document's fields are named after.  The field names of the
\* three resource structs are disjoint, so every field a document written
\* for one struct holds is unknown to the other two.
DocOf(doc) ==
    IF "partitions" \in DOMAIN doc THEN "Topic"
    ELSE IF "resource_type" \in DOMAIN doc THEN "Acl"
    ELSE "Quota"

HasFields(doc) == \E f \in DOMAIN doc \ {"extra"} : Len(doc[f]) > 0

\* KafkaResource::from_bytes on a Topic address.  The struct is
\* #[serde(default, deny_unknown_fields)]: an unknown field is an error and
\* a field left out takes its value from KafkaTopic::default().
TopicFromBytes(addr, doc) ==
    IF FromPath(ToPathBuf(addr)).tag # "Ok" THEN ParseErr
    ELSE IF FromPath(ToPathBuf(addr)).addr.kind # "Topic" THEN ParseErr
    ELSE IF doc.extra THEN ParseErr
    ELSE IF DocOf(doc) # "Topic"
         THEN IF HasFields(doc) THEN ParseErr ELSE ParseOk(DefaultTopic)
    ELSE ParseOk(KafkaTopic(
            IF doc.partitions = None THEN DefaultTopic.partitions ELSE doc.partitions[1],
            IF doc.replication_factor = None THEN DefaultTopic.replication_factor
                                             ELSE doc.replication_factor[1],
            IF doc.config = None THEN DefaultTopic.config ELSE doc.config[1]))

\* KafkaAcl.  Each enum is cut down to the variants listed here.
KafkaResourceTypes   == {"Topic", "Group"}
KafkaAclOperations   == {"Read", "Write"}
KafkaAclPermissions  == {"Allow", "Deny"}
KafkaPrincipal(t, n) == [principal_type |-> t, name |-> n]

AclFields ==
    {"resource_type", "resource_name", "pattern_type", "principal", "host",
     "operation", "permission"}

KafkaAcl(rt, op, pm) ==
    [resource_type |-> rt, resource_name |-> "orders", pattern_type |-> "Literal",
     principal |-> KafkaPrincipal("User", "alice"), host |-> "*",
     operation |-> op, permission |-> pm]

DefaultAcl ==
    [resource_type |-> "Topic", resource_name |-> "", pattern_type |-> "Literal",
     principal |-> KafkaPrincipal("User", ""), host |-> "*",
     operation |-> "All", permission |-> "Allow"]

AclValues ==
    {KafkaAcl(rt, op, pm) :
        rt \in KafkaResourceTypes, op \in KafkaAclOperations, pm \in KafkaAclPermissions}

\* KafkaResource::to_bytes for an ACL: every field is written.
AclToBytes(a) == [f \in AclFields |-> Some(a[f])] @@ [extra |-> FALSE]

\* KafkaAcl's derived PartialEq: field by field.
AclEq(a, b) == \A f \in AclFields : a[f] = b[f]

\* Variant of AclFromBytes: a field left out is taken from KafkaAcl::default().
AclFromBytesDefaulting(addr, doc) ==
    IF FromPath(ToPathBuf(addr)).tag # "Ok" THEN ParseErr
    ELSE IF FromPath(ToPathBuf(addr)).addr.kind # "Acl" THEN ParseErr
    ELSE IF doc.extra THEN ParseErr
    ELSE IF DocOf(doc) # "Acl" THEN ParseErr
    ELSE ParseOk([f \in AclFields |-> IF doc[f] = None THEN DefaultAcl[f] ELSE doc[f][1]])

\* KafkaResource::from_bytes on an Acl address.  The struct is
\* #[serde(deny_unknown_fields)] and has no default: an unknown field and
\* a field left out are both errors.
AclFromBytes(addr, doc) ==
    IF FromPath(ToPathBuf(addr)).tag # "Ok" THEN ParseErr
    ELSE IF FromPath(ToPathBuf(addr)).addr.kind # "Acl" THEN ParseErr
    ELSE IF doc.extra THEN ParseErr
    ELSE IF DocOf(doc) # "Acl" THEN ParseErr
    ELSE IF \E f \in AclFields : doc[f] = None THEN ParseErr
    ELSE ParseOk([f \in AclFields |-> doc[f][1]])

\* f64: a number or NaN.  The `==` of f64 is false whenever a side is NaN.
F64(v)      == [nan |-> FALSE, v |-> v]
NaN         == [nan |-> TRUE, v |-> 0]
F64Eq(a, b) == ~a.nan /\ ~b.nan /\ a.v = b.v

\* Option<f64>'s PartialEq.
OptionF64Eq(a, b) ==
    IF a = None \/ b = None THEN a = None /\ b = None ELSE F64Eq(a[1], b[1])

KafkaQuotaEntity(t, n) == [entity_type |-> t, name |-> n]

RateFields == {"producer_byte_rate", "consumer_byte_rate", "request_percentage"}

KafkaQuota(e, p, c, r) ==
    [entities |-> e, producer_byte_rate |-> p, consumer_byte_rate |-> c,
     request_percentage |-> r]

DefaultQuota == KafkaQuota(<<>>, None, None, None)

EntityLists ==
    {<<>>,
     <<KafkaQuotaEntity("User", "alice")>>,
     <<KafkaQuotaEntity("User", "alice"), KafkaQuotaEntity("ClientId", "app")>>,
     <<KafkaQuotaEntity("ClientId", "app"), KafkaQuotaEntity("User", "alice")>>}

QuotaValues ==
    {KafkaQuota(e, p, c, r) :
        e \in EntityLists,
        p \in {None, Some(F64(0)), Some(F64(1024)), Some(NaN)},
        c \in {None, Some(F64(1024))},
        r \in {None, Some(F64(0))}}

\* KafkaResource::to_bytes for a quota: every field is written, an unset
\* rate as None.
QuotaToBytes(q) ==
    [entities |-> Some(q.entities)]
    @@ [f \in RateFields |-> Some(q[f])] @@ [extra |-> FALSE]

\* KafkaQuota's derived PartialEq: the entity lists element by element in
\* order, the rates as Option<f64>.
QuotaEq(a, b) ==
    /\ a.entities = b.entities
    /\ \A f \in RateFields : OptionF64Eq(a[f], b[f])

\* KafkaResource::from_bytes on a Quota address.  The struct is
\* #[serde(deny_unknown_fields)]; entities must be written, and a rate
\* left out is read as None, as serde reads every missing Option field.
QuotaFromBytes(addr, doc) ==
    IF FromPath(ToPathBuf(addr)).tag # "Ok" THEN ParseErr
    ELSE IF FromPath(ToPathBuf(addr)).addr.kind # "Quota" THEN ParseErr
    ELSE IF doc.extra THEN ParseErr
    ELSE IF DocOf(doc) # "Quota" THEN ParseErr
    ELSE IF doc.entities = None THEN ParseErr
    ELSE ParseOk([entities |-> doc.entities[1]]
                 @@ [f \in RateFields |-> IF doc[f] = None THEN None ELSE doc[f][1]])

-----------------------------------------------------------------------------
(* Operation model: op.rs *)

NoTopic == KafkaTopic(0, 0, <<>>)
\* res is the KafkaAcl or KafkaQuota an operation carries, as an Option.
Op(name, t, p, c) ==
    [op |-> name, topic |-> t, partitions |-> p, config |-> c, res |-> None]
OpRes(name, r) ==
    [op |-> name, topic |-> NoTopic, partitions |-> 0, config |-> <<>>, res |-> Some(r)]

CreateTopic(t)           == Op("CreateTopic", t, 0, <<>>)
UpdateTopicPartitions(p) == Op("UpdateTopicPartitions", NoTopic, p, <<>>)
UpdateTopicConfig(c)     == Op("UpdateTopicConfig", NoTopic, 0, c)
DeleteTopic              == Op("DeleteTopic", NoTopic, 0, <<>>)
CreateAcl(a)             == OpRes("CreateAcl", a)
DeleteAcl(a)             == OpRes("DeleteAcl", a)
CreateQuota(q)           == OpRes("CreateQuota", q)
UpdateQuota(q)           == OpRes("UpdateQuota", q)
DeleteQuota              == Op("DeleteQuota", NoTopic, 0, <<>>)
NoOp                     == Op("None", NoTopic, 0, <<>>)

-----------------------------------------------------------------------------
(* Planner: connector/plan.rs *)

PlanOk(ops)  == [tag |-> "Ok", ops |-> ops, err |-> "none"]
PlanErr(e)   == [tag |-> "Err", ops |-> <<>>, err |-> e]
NoPlan       == [tag |-> "None", ops |-> <<>>, err |-> "none"]

\* The partitions comparison of plan.rs:66-82.
PartitionsIncrease(d, c) == d.partitions > c.partitions
\* Variant: the decrease is never noticed.
PartitionsDecreaseNever(d, c) == FALSE
PartitionsDecrease(d, c) == d.partitions < c.partitions

\* The replication factor comparison of plan.rs:85.
ReplicationChanged(d, c) == d.replication_factor # c.replication_factor

\* Variant: the maps are compared entry by entry in insertion order.
ConfigChangedOrdered(d, c) == d.config # c.config

\* The config comparison of plan.rs:94.
ConfigChanged(d, c) == ~IndexMapEq(d.config, c.config)

\* Variants of PlanTopicUpdate, each with one slip.
\* The error path hands back the operations gathered so far.
PlanTopicUpdatePartial(c, d) ==
    LET ops1 == IF PartitionsIncrease(d, c)
                THEN <<UpdateTopicPartitions(d.partitions)>> ELSE <<>>
    IN  IF PartitionsDecrease(d, c) THEN PlanErr("UnsupportedTransition")
        ELSE IF ReplicationChanged(d, c)
             THEN [tag |-> "Err", ops |-> ops1, err |-> "ImmutableFieldViolation"]
        ELSE IF ConfigChanged(d, c)
             THEN PlanOk(Append(ops1, UpdateTopicConfig(d.config)))
             ELSE PlanOk(ops1)

\* Any change of partitions is turned into an operation.
PlanTopicUpdateAnyPartitions(c, d) ==
    LET ops1 == IF d.partitions # c.partitions
                THEN <<UpdateTopicPartitions(d.partitions)>> ELSE <<>>
    IN  IF ReplicationChanged(d, c) THEN PlanErr("ImmutableFieldViolation")
        ELSE IF ConfigChanged(d, c)
             THEN PlanOk(Append(ops1, UpdateTopicConfig(d.config)))
             ELSE PlanOk(ops1)

\* The operation carries the current partition count.
PlanTopicUpdateStaleCount(c, d) ==
    LET ops1 == IF PartitionsIncrease(d, c)
                THEN <<UpdateTopicPartitions(c.partitions)>> ELSE <<>>
    IN  IF PartitionsDecrease(d, c) THEN PlanErr("UnsupportedTransition")
        ELSE IF ReplicationChanged(d, c) THEN PlanErr("ImmutableFieldViolation")
        ELSE IF ConfigChanged(d, c)
             THEN PlanOk(Append(ops1, UpdateTopicConfig(d.config)))
             ELSE PlanOk(ops1)

\* The config operation is pushed ahead of the partitions operation.
PlanTopicUpdateConfigFirst(c, d) ==
    LET ops1 == IF PartitionsIncrease(d, c)
                THEN <<UpdateTopicPartitions(d.partitions)>> ELSE <<>>
    IN  IF PartitionsDecrease(d, c) THEN PlanErr("UnsupportedTransition")
        ELSE IF ReplicationChanged(d, c) THEN PlanErr("ImmutableFieldViolation")
        ELSE IF ConfigChanged(d, c)
             THEN PlanOk(<<UpdateTopicConfig(d.config)>> \o ops1)
             ELSE PlanOk(ops1)

\* plan_topic, the (Some, Some) arm once both payloads are decoded.
PlanTopicUpdate(c, d) ==
    LET ops1 == IF PartitionsIncrease(d, c)
                THEN <<UpdateTopicPartitions(d.partitions)>> ELSE <<>>
    IN  IF PartitionsDecrease(d, c) THEN PlanErr("UnsupportedTransition")
        ELSE IF ReplicationChanged(d, c) THEN PlanErr("ImmutableFieldViolation")
        ELSE IF ConfigChanged(d, c)
             THEN PlanOk(Append(ops1, UpdateTopicConfig(d.config)))
             ELSE PlanOk(ops1)

PlanTopic(addr, cur, des) ==
    IF cur = None /\ des = None THEN PlanOk(<<>>)
    ELSE IF cur = None THEN
        LET d == TopicFromBytes(addr, des[1]) IN
        IF d.tag = "Err" THEN PlanErr("DeserializeFailure")
        ELSE PlanOk(<<CreateTopic(d.val)>>)
    ELSE IF des = None THEN PlanOk(<<DeleteTopic>>)
    ELSE
        LET c == TopicFromBytes(addr, cur[1])
            d == TopicFromBytes(addr, des[1])
        IN  IF c.tag = "Err" \/ d.tag = "Err" THEN PlanErr("DeserializeFailure")
            ELSE PlanTopicUpdate(c.val, d.val)

\* Variant of PlanAclUpdate: the new entry is created before the old one
\* is deleted.
PlanAclUpdateCreateFirst(c, d) ==
    IF ~AclEq(c, d) THEN PlanOk(<<CreateAcl(d), DeleteAcl(c)>>) ELSE PlanOk(<<>>)

\* plan_acl, the (Some, Some) arm once both payloads are decoded.
PlanAclUpdate(c, d) ==
    IF ~AclEq(c, d) THEN PlanOk(<<DeleteAcl(c), CreateAcl(d)>>) ELSE PlanOk(<<>>)

\* Variant of PlanAcl: the delete of the (Some, None) arm names no entry.
PlanAclDeleteBlank(addr, cur, des) ==
    IF cur = None /\ des = None THEN PlanOk(<<>>)
    ELSE IF cur = None THEN
        LET d == AclFromBytes(addr, des[1]) IN
        IF d.tag = "Err" THEN PlanErr("DeserializeFailure")
        ELSE PlanOk(<<CreateAcl(d.val)>>)
    ELSE IF des = None THEN
        LET c == AclFromBytes(addr, cur[1]) IN
        IF c.tag = "Err" THEN PlanErr("DeserializeFailure")
        ELSE PlanOk(<<DeleteAcl(DefaultAcl)>>)
    ELSE
        LET c == AclFromBytes(addr, cur[1])
            d == AclFromBytes(addr, des[1])
        IN  IF c.tag = "Err" \/ d.tag = "Err" THEN PlanErr("DeserializeFailure")
            ELSE PlanAclUpdate(c.val, d.val)

PlanAcl(addr, cur, des) ==
    IF cur = None /\ des = None THEN PlanOk(<<>>)
    ELSE IF cur = None THEN
        LET d == AclFromBytes(addr, des[1]) IN
        IF d.tag = "Err" THEN PlanErr("DeserializeFailure")
        ELSE PlanOk(<<CreateAcl(d.val)>>)
    ELSE IF des = None THEN
        LET c == AclFromBytes(addr, cur[1]) IN
        IF c.tag = "Err" THEN PlanErr("DeserializeFailure")
        ELSE PlanOk(<<DeleteAcl(c.val)>>)
    ELSE
        LET c == AclFromBytes(addr, cur[1])
            d == AclFromBytes(addr, des[1])
        IN  IF c.tag = "Err" \/ d.tag = "Err" THEN PlanErr("DeserializeFailure")
            ELSE PlanAclUpdate(c.val, d.val)

\* plan_quota, the (Some, Some) arm once both payloads are decoded.
PlanQuotaUpdate(c, d) ==
    IF ~QuotaEq(c, d) THEN PlanOk(<<UpdateQuota(d)>>) ELSE PlanOk(<<>>)

\* Variant of PlanQuota: the create of the (None, Some) arm carries an
\* empty quota.
PlanQuotaCreateBlank(addr, cur, des) ==
    IF cur = None /\ des = None THEN PlanOk(<<>>)
    ELSE IF cur = None THEN
        LET d == QuotaFromBytes(addr, des[1]) IN
        IF d.tag = "Err" THEN PlanErr("DeserializeFailure")
        ELSE PlanOk(<<CreateQuota(DefaultQuota)>>)
    ELSE IF des = None THEN PlanOk(<<DeleteQuota>>)
    ELSE
        LET c == QuotaFromBytes(addr, cur[1])
            d == QuotaFromBytes(addr, des[1])
        IN  IF c.tag = "Err" \/ d.tag = "Err" THEN PlanErr("DeserializeFailure")
            ELSE PlanQuotaUpdate(c.val, d.val)

PlanQuota(addr, cur, des) ==
    IF cur = None /\ des = None THEN PlanOk(<<>>)
    ELSE IF cur = None THEN
        LET d == QuotaFromBytes(addr, des[1]) IN
        IF d.tag = "Err" THEN PlanErr("DeserializeFailure")
        ELSE PlanOk(<<CreateQuota(d.val)>>)
    ELSE IF des = None THEN PlanOk(<<DeleteQuota>>)
    ELSE
        LET c == QuotaFromBytes(addr, cur[1])
            d == QuotaFromBytes(addr, des[1])
        IN  IF c.tag = "Err" \/ d.tag = "Err" THEN PlanErr("DeserializeFailure")
            ELSE PlanQuotaUpdate(c.val, d.val)

\* Variant of DoPlan: the planner resolves the cluster's client, as the
\* executor does, and fails when the registry has none.
DoPlanResolvesClient(path, cur, des) ==
    LET a == FromPath(path) IN
    IF a.tag = "Panic" THEN PlanErr("Panic")
    ELSE IF a.tag # "Ok" THEN PlanErr("InvalidAddress")
    ELSE IF a.addr.kind \in {"Topic", "Acl", "Quota"} /\ a.addr.cluster \notin clients
         THEN PlanErr("ClusterNotFound")
    ELSE CASE a.addr.kind = "Topic"  -> PlanTopic(a.addr, cur, des)
           [] a.addr.kind = "Acl"    -> PlanAcl(a.addr, cur, des)
           [] a.addr.kind = "Quota"  -> PlanQuota(a.addr, cur, des)
           [] a.addr.kind = "Config" -> PlanOk(<<>>)
           [] OTHER                  -> PlanOk(<<>>)

\* do_plan: the path is decoded first, then the address kind selects the
\* planner.  from_path has no arm that yields a Task address.
DoPlan(path, cur, des) ==
    LET a == FromPath(path) IN
    IF a.tag = "Panic" THEN PlanErr("Panic")
    ELSE IF a.tag # "Ok" THEN PlanErr("InvalidAddress")
    ELSE CASE a.addr.kind = "Topic"  -> PlanTopic(a.addr, cur, des)
           [] a.addr.kind = "Acl"    -> PlanAcl(a.addr, cur, des)
           [] a.addr.kind = "Quota"  -> PlanQuota(a.addr, cur, des)
           [] a.addr.kind = "Config" -> PlanOk(<<>>)
           [] OTHER                  -> PlanOk(<<>>)

-----------------------------------------------------------------------------
(* Executor: connector/op_exec.rs, and the remote cluster it calls *)

\* A topic as the cluster holds it; its config is an unordered map.
LiveTopic(p, r, cfg) == [partitions |-> p, replication_factor |-> r, config |-> cfg]
LiveOf(t) == LiveTopic(t.partitions, t.replication_factor, Pairs(t.config))

\* What the remote admin call reports: success with one good entry, a
\* per-item error, a call-level error, or success with no entries.
Outcomes == {"ok", "item_err", "call_err", "empty"}

TopicOps == {"CreateTopic", "UpdateTopicPartitions", "UpdateTopicConfig", "DeleteTopic"}

\* The cluster carries out a request only if the topic it names is there
\* (or, for a create, is not).  A cluster may check more, such as the new
\* partition count; nothing here relies on that.
RemoteAccepts(state, op) ==
    CASE op.op = "CreateTopic"           -> state = None
      [] op.op = "UpdateTopicPartitions" -> state # None
      [] op.op = "UpdateTopicConfig"     -> state # None
      [] op.op = "DeleteTopic"           -> state # None
      [] OTHER                           -> FALSE

\* Variant of RemoteApply: create_topics is sent without the config entries.
RemoteApplyNoConfig(state, op) ==
    CASE op.op = "CreateTopic" ->
            Some(LiveTopic(op.topic.partitions, op.topic.replication_factor, {}))
      [] op.op = "UpdateTopicPartitions" ->
            Some([state[1] EXCEPT !.partitions = op.partitions])
      [] op.op = "UpdateTopicConfig" ->
            Some([state[1] EXCEPT !.config = Pairs(op.config)])
      [] op.op = "DeleteTopic" -> None
      [] OTHER -> state

\* The request each topic operation sends, by its effect on the cluster:
\* create_topics (NewTopic with every config entry set), create_partitions
\* (the new total), alter_configs (the whole entry map), delete_topics.
RemoteApply(state, op) ==
    CASE op.op = "CreateTopic" ->
            Some(LiveTopic(op.topic.partitions, op.topic.replication_factor, Pairs(op.topic.config)))
      [] op.op = "UpdateTopicPartitions" ->
            Some([state[1] EXCEPT !.partitions = op.partitions])
      [] op.op = "UpdateTopicConfig" ->
            Some([state[1] EXCEPT !.config = Pairs(op.config)])
      [] op.op = "DeleteTopic" -> None
      [] OTHER -> state

\* The state of the topic after the call, given what the call reported.
RemoteAfter(state, op, outcome) ==
    IF outcome = "ok" THEN RemoteApply(state, op) ELSE state

\* Variant of TopicExecResult: DeleteTopic reads results[0] without the
\* is_empty check, an empty result array counting as done.
TopicExecResultDeleteUnchecked(op, outcome) ==
    IF op.op \notin TopicOps THEN "InvalidOp"
    ELSE CASE outcome = "ok"       -> "Ok"
           [] outcome = "empty"    -> IF op.op = "DeleteTopic" THEN "Ok"
                                      ELSE "NoResultReturned"
           [] outcome = "item_err" -> "RemoteOperationFailure"
           [] OTHER                -> "RemoteOperationFailure"

\* The result do_op_exec returns for an operation on a Topic address whose
\* cluster has a client.
TopicExecResult(op, outcome) ==
    IF op.op \notin TopicOps THEN "InvalidOp"
    ELSE CASE outcome = "ok"       -> "Ok"
           [] outcome = "empty"    -> "NoResultReturned"
           [] outcome = "item_err" -> "RemoteOperationFailure"
           [] OTHER                -> "RemoteOperationFailure"

\* Variant of IssuesRemoteCall: the match on the operation has no
\* fallthrough arm, every operation being sent to the cluster.
IssuesRemoteCallAny(op) == op.op # "None"

\* The remote call a topic operation issues (none for another operation).
IssuesRemoteCall(op) == op.op \in TopicOps

\* do_get on a Topic address: the entries are sorted by name before they are
\* inserted into the IndexMap.
RECURSIVE SortedFrom(_, _)
SortedFrom(cfg, i) ==
    IF i > Len(KeyOrder) THEN <<>>
    ELSE (IF \E e \in cfg : e[1] = KeyOrder[i]
          THEN <<CHOOSE e \in cfg : e[1] = KeyOrder[i]>> ELSE <<>>)
         \o SortedFrom(cfg, i + 1)

DoGetTopic(state) ==
    IF state = None THEN None
    ELSE Some(TopicToBytes(KafkaTopic(state[1].partitions, state[1].replication_factor,
                                      SortedFrom(state[1].config, 1))))

\* Executing a list of operations in order, every call succeeding.
RECURSIVE ApplyAll(_, _)
ApplyAll(state, ops) ==
    IF ops = <<>> THEN state
    ELSE ApplyAll(RemoteApply(state, Head(ops)), Tail(ops))

-----------------------------------------------------------------------------
(* Runs of the address codec *)

NameChars == {"a", SLASH, DOT}

\* The non-empty strings over NameChars of at most MaxNameLen characters.
Names == UNION {[1..n -> NameChars] : n \in 1..MaxNameLen}

\* The constructible addresses other than Task.
Addresses ==
    {ConfigAddr} \cup {Addr(k, c, i) : k \in {"Topic", "Acl", "Quota"}, c \in Names, i \in Names}

Segs == {KAFKA, CONFIG_RON, TASK_RON, TOPICS, ACLS, QUOTAS,
         <<"a">>, <<"a">> \o RON_EXT, <<DOT>>, <<BadByte>>}
FirstSegs == {KAFKA, <<>>, <<DOT>>, <<"a">>}

RECURSIVE Join(_)
Join(segs) ==
    IF segs = <<>> THEN <<>>
    ELSE IF Len(segs) = 1 THEN segs[1]
    ELSE segs[1] \o <<SLASH>> \o Join(Tail(segs))

\* Paths of a first segment followed by at most MaxSegs segments.
RawPaths ==
    {Join(<<f>> \o rest) : f \in FirstSegs, rest \in UNION {[1..n -> Segs] : n \in 0..MaxSegs}}

CodecInputs ==
    {[tag |-> "addr", addr |-> a, path |-> <<>>] : a \in Addresses}
    \cup {[tag |-> "path", addr |-> ConfigAddr, path |-> p] : p \in RawPaths}

CodecIdle ==
    /\ codecPc = "idle"
    /\ codecIn = [tag |-> "none", addr |-> ConfigAddr, path |-> <<>>]
    /\ codecPath = <<>>
    /\ codecOut = NoResult

CodecInit ==
    /\ codecPc = "input"
    /\ codecIn \in CodecInputs
    /\ codecPath = <<>>
    /\ codecOut = NoResult

\* to_path_buf on the input address
Encode ==
    /\ codecPc = "input"
    /\ codecIn.tag = "addr"
    /\ codecPath' = ToPathBuf(codecIn.addr)
    /\ codecPc' = "encoded"
    /\ UNCHANGED <<codecIn, codecOut>>

\* a caller hands in a path of its own
GivePath ==
    /\ codecPc = "input"
    /\ codecIn.tag = "path"
    /\ codecPath' = codecIn.path
    /\ codecPc' = "encoded"
    /\ UNCHANGED <<codecIn, codecOut>>

\* from_path on the path
Decode ==
    /\ codecPc = "encoded"
    /\ codecOut' = FromPath(codecPath)
    /\ codecPc' = "decoded"
    /\ UNCHANGED <<codecIn, codecPath>>

CodecNext == (Encode \/ GivePath \/ Decode) /\ UNCHANGED <<planVars, reqVars, connVars>>

-----------------------------------------------------------------------------
(* Runs of the planner followed by the executor, on one topic *)

PlanAddr == Addr("Topic", <<"a">>, <<"a">>)

\* Documents that leave fields out or carry an unknown field.
PartialDocs ==
    { Doc(None, None, None, FALSE),
      Doc(Some(2), None, None, FALSE),
      Doc(Some(1), Some(1), Some(<<>>), TRUE) }

CurrentInputs == {None} \cup {Some(TopicToBytes(t)) : t \in TopicValues}
DesiredInputs == CurrentInputs \cup {Some(d) : d \in PartialDocs}

\* The cluster state a current payload describes.
LiveOfInput(cur) ==
    IF cur = None THEN None ELSE Some(LiveOf(TopicFromBytes(PlanAddr, cur[1]).val))

PlanIdle ==
    /\ planPc = "idle"
    /\ current = None
    /\ desired = None
    /\ planRes = NoPlan
    /\ live = None
    /\ todo = <<>>
    /\ lastOp = NoOp

PlanInit ==
    /\ planPc = "input"
    /\ current \in CurrentInputs
    /\ desired \in DesiredInputs
    /\ planRes = NoPlan
    /\ live = LiveOfInput(current)
    /\ todo = <<>>
    /\ lastOp = NoOp

\* plan(addr, current, desired)
Plan ==
    /\ planPc = "input"
    /\ planRes' = PlanTopic(PlanAddr, current, desired)
    /\ todo' = planRes'.ops
    /\ planPc' = IF planRes'.tag = "Err" THEN "rejected"
                 ELSE IF planRes'.ops = <<>> THEN "done" ELSE "planned"
    /\ UNCHANGED <<current, desired, live, lastOp>>

\* op_exec(addr, op) on the next planned operation; the caller stops at the
\* first failure.
ExecOp ==
    /\ planPc = "planned"
    /\ todo # <<>>
    /\ \E outcome \in Outcomes :
        /\ outcome = "ok" => RemoteAccepts(live, Head(todo))
        /\ live' = RemoteAfter(live, Head(todo), outcome)
        /\ IF TopicExecResult(Head(todo), outcome) = "Ok"
           THEN /\ todo' = Tail(todo)
                /\ planPc' = IF Tail(todo) = <<>> THEN "done" ELSE "planned"
           ELSE /\ todo' = todo
                /\ planPc' = "failed"
    /\ lastOp' = Head(todo)
    /\ UNCHANGED <<current, desired, planRes>>

\* The caller reads the topic back with get and plans again.
Replan ==
    /\ planPc \in {"done", "failed", "rejected"}
    /\ current' = DoGetTopic(live)
    /\ desired' \in DesiredInputs
    /\ planRes' = NoPlan
    /\ todo' = <<>>
    /\ planPc' = "input"
    /\ UNCHANGED <<live, lastOp>>

PlanNext == (Plan \/ ExecOp \/ Replan) /\ UNCHANGED <<codecVars, reqVars, connVars>>

-----------------------------------------------------------------------------
(* Runs of do_plan and of from_bytes, on an address of every kind *)

\* KafkaResource::from_bytes: the address is encoded and decoded again, and
\* its kind selects the struct the document is read as.
FromBytes(addr, doc) ==
    LET a == FromPath(ToPathBuf(addr)) IN
    IF a.tag # "Ok" THEN ParseErr
    ELSE CASE a.addr.kind = "Topic" -> TopicFromBytes(addr, doc)
           [] a.addr.kind = "Acl"   -> AclFromBytes(addr, doc)
           [] a.addr.kind = "Quota" -> QuotaFromBytes(addr, doc)
           [] OTHER                 -> ParseErr

NoParse == [tag |-> "None", val |-> DefaultTopic]

TaskAddr == Addr("Task", <<>>, <<>>)

KindAddrs ==
    {Addr("Topic", <<"a">>, <<"a">>), Addr("Acl", <<"a">>, <<"a">>),
     Addr("Quota", <<"a">>, <<"a">>), ConfigAddr, TaskAddr}

AclSample   == KafkaAcl("Topic", "Read", "Allow")
QuotaSample == KafkaQuota(<<KafkaQuotaEntity("User", "alice")>>, Some(F64(1024)), None, None)

\* Documents that leave fields out or carry an unknown field.
AclPartialDocs ==
    { [AclToBytes(AclSample) EXCEPT !.host = None],
      [AclToBytes(AclSample) EXCEPT !.permission = None],
      [AclToBytes(AclSample) EXCEPT !.extra = TRUE],
      [f \in AclFields |-> None] @@ [extra |-> FALSE] }

QuotaPartialDocs ==
    { [QuotaToBytes(QuotaSample) EXCEPT !.consumer_byte_rate = None],
      [QuotaToBytes(QuotaSample) EXCEPT !.entities = None],
      [QuotaToBytes(QuotaSample) EXCEPT !.extra = TRUE] }

\* The payloads handed in with an address of each kind: documents written
\* by to_bytes, documents written by hand, and a document of another kind.
PayloadsFor(kind) ==
    {None} \cup
    CASE kind = "Topic" ->
            {Some(TopicToBytes(DefaultTopic)), Some(TopicToBytes(KafkaTopic(2, 1, <<>>))),
             Some(AclToBytes(AclSample))}
            \cup {Some(d) : d \in PartialDocs}
      [] kind = "Acl" ->
            {Some(AclToBytes(a)) : a \in AclValues}
            \cup {Some(d) : d \in AclPartialDocs}
            \cup {Some(TopicToBytes(DefaultTopic))}
      [] kind = "Quota" ->
            {Some(QuotaToBytes(q)) : q \in QuotaValues}
            \cup {Some(d) : d \in QuotaPartialDocs}
            \cup {Some(TopicToBytes(DefaultTopic))}
      [] OTHER ->
            {Some(TopicToBytes(DefaultTopic)), Some(Doc(Some(1), Some(1), Some(<<>>), TRUE))}

ReqIdle ==
    /\ reqPc = "idle"
    /\ reqPath = <<>>
    /\ reqCur = None
    /\ reqDes = None
    /\ reqRes = NoPlan
    /\ reqParse = NoParse

ReqInit ==
    /\ reqPc = "input"
    /\ \E a \in KindAddrs :
        /\ reqPath = ToPathBuf(a)
        /\ reqCur \in PayloadsFor(a.kind)
        /\ reqDes \in PayloadsFor(a.kind)
    /\ reqRes = NoPlan
    /\ reqParse = NoParse

\* plan(addr, current, desired)
DoPlanCall ==
    /\ reqPc = "input"
    /\ reqRes' = DoPlan(reqPath, reqCur, reqDes)
    /\ reqPc' = "planned"
    /\ UNCHANGED <<reqPath, reqCur, reqDes, reqParse>>

\* KafkaResource::from_bytes(addr, desired), for a path that decodes.
FromBytesCall ==
    /\ reqPc = "input"
    /\ reqDes # None
    /\ FromPath(reqPath).tag = "Ok"
    /\ reqParse' = FromBytes(FromPath(reqPath).addr, reqDes[1])
    /\ reqPc' = "parsed"
    /\ UNCHANGED <<reqPath, reqCur, reqDes, reqRes>>

ReqNext == (DoPlanCall \/ FromBytesCall) /\ UNCHANGED <<codecVars, planVars, connVars>>

-----------------------------------------------------------------------------
(* The connector: connector.rs, connector/op_exec.rs, get.rs, list.rs *)

Tasks == {"t1", "t2"}
Locks == {"clients", "config", "semaphore"}

ClusterA       == <<"a">>
ClusterB       == <<"b">>
DefaultCluster == <<"d","e","f","a","u","l","t">>
RemoteClusters == {ClusterA}   \* the clusters whose topic is tracked

DefaultTimeoutMs          == 30000
DefaultConcurrentRequests == 10
InitialPermits            == 1

ConnectorConfig(cs, ms, n) ==
    [clusters |-> cs, operation_timeout_ms |-> ms, concurrent_requests |-> n]

\* KafkaConnectorConfig::default()
DefaultConfig ==
    ConnectorConfig({DefaultCluster}, DefaultTimeoutMs, DefaultConcurrentRequests)

\* The contents kafka/config.ron may have when init reads it.
ConfigFiles ==
    { ConnectorConfig({ClusterA}, DefaultTimeoutMs, 1),
      ConnectorConfig({ClusterA, DefaultCluster}, DefaultTimeoutMs, 2) }

TopicName == <<"a">>
TopicPathA == ToPathBuf(Addr("Topic", ClusterA, TopicName))
TopicPathB == ToPathBuf(Addr("Topic", ClusterB, TopicName))
AclPathA   == ToPathBuf(Addr("Acl", ClusterA, TopicName))
ConfigPath == ToPathBuf(ConfigAddr)
TaskPath   == KAFKA \o <<SLASH>> \o TASK_RON

QuotaPathA == ToPathBuf(Addr("Quota", ClusterA, TopicName))

CallPaths == {TopicPathA, TopicPathB, AclPathA, QuotaPathA, ConfigPath, TaskPath}

OneEntry == << <<"retention.ms", "1000">> >>
OpChoices ==
    {CreateTopic(DefaultTopic), UpdateTopicPartitions(2), UpdateTopicConfig(OneEntry),
     DeleteTopic, CreateAcl(DefaultAcl)}

\* What a plan call was given and what it returned; seen records the
\* registry at the time of the call.
PlanRecord(cur, des, res, seen) == [cur |-> cur, des |-> des, res |-> res, seen |-> seen]
NotPlanned == PlanRecord(None, None, NoPlan, {})

\* A call of a task: its kind and arguments, the outcome of its remote call
\* (desc), the clusters a listing has yet to visit (rem) and the number of
\* remote calls it has issued (sent).
Call(kind, path, op, desc, rem) ==
    [kind |-> kind, path |-> path, op |-> op, desc |-> desc, rem |-> rem,
     plan |-> NotPlanned, sent |-> 0]
IdleCall == Call("idle", <<>>, NoOp, "none", {})

\* The (path, op) pairs handed to op_exec: every operation on the topic of
\* a cluster the config files name, and a few on the other addresses.
OpExecCalls ==
    {<<TopicPathA, op>> : op \in OpChoices}
    \cup {<<TopicPathB, CreateTopic(DefaultTopic)>>, <<TopicPathB, CreateAcl(DefaultAcl)>>,
          <<AclPathA, CreateAcl(DefaultAcl)>>, <<AclPathA, DeleteTopic>>,
          <<QuotaPathA, DeleteQuota>>,
          <<ConfigPath, DeleteTopic>>, <<TaskPath, DeleteTopic>>}

\* The call a task has returned from: its kind and path stay on record
\* until the task starts its next call.
Returned(kind, path) == Call(kind, path, NoOp, "none", {})

\* An op_exec call that returned before taking any guard; the operation it
\* was given stays on record with it.
ReturnedOp(path, op) == Call("op_exec", path, op, "none", {})

\* The inputs of the plan calls.
PlanCalls ==
    { [path |-> TopicPathA, cur |-> None, des |-> Some(TopicToBytes(DefaultTopic))],
      [path |-> AclPathA,
       cur |-> Some(AclToBytes(KafkaAcl("Topic", "Read", "Allow"))),
       des |-> Some(AclToBytes(KafkaAcl("Topic", "Read", "Deny")))] }

\* from_path of each path the calls are given, and do_plan of each plan
\* input.
AddrOf     == [p \in CallPaths |-> FromPath(p)]
PlanAnswer == [inp \in PlanCalls |-> DoPlan(inp.path, inp.cur, inp.des)]

\* The remote calls a task has issued and not yet seen return.
InFlight == {t \in Tasks : pc[t] \in {"remote", "remote2", "list_remote"}}

\* Variant of WriterWaiting: init keeps the write guard of `config` until
\* its last store, so readers of `config` wait for the whole of init.
WriterKeepsConfig(l) ==
    \/ l = "config"  /\ \E u \in Tasks : pc[u] \in {"w_config", "w_sem", "w_clients"}
    \/ l = "clients" /\ \E u \in Tasks : pc[u] = "w_clients"

\* tokio's RwLock queues a writer ahead of the readers that come after it.
WriterWaiting(l) ==
    \/ l = "config"  /\ \E u \in Tasks : pc[u] = "w_config"
    \/ l = "clients" /\ \E u \in Tasks : pc[u] = "w_clients"

ReadLocked(t, l) == [lockR EXCEPT ![l] = @ \cup {t}]
Released(t)      == [l \in Locks |-> lockR[l] \ {t}]

\* The call of task t returns res and drops the guards it holds.
Finish(t, res) ==
    /\ result' = [result EXCEPT ![t] = res]
    /\ pc' = [pc EXCEPT ![t] = "idle"]
    /\ call' = [call EXCEPT ![t] =
                    [Returned(call[t].kind, call[t].path) EXCEPT
                        !.op = call[t].op, !.sent = call[t].sent]]
    /\ lockR' = Released(t)

\* The remote call of task t came back with outcome; the call returns res
\* and drops the guards it holds.
Answer(t, res, outcome) ==
    /\ result' = [result EXCEPT ![t] = res]
    /\ pc' = [pc EXCEPT ![t] = "idle"]
    /\ call' = [call EXCEPT ![t] =
                    [Returned(call[t].kind, call[t].path) EXCEPT
                        !.op = call[t].op, !.sent = call[t].sent, !.desc = outcome]]
    /\ lockR' = Released(t)

ConnIdle ==
    /\ clients = {}
    /\ config = DefaultConfig
    /\ semaphore = InitialPermits
    /\ lockR = [l \in Locks |-> {}]
    /\ pc = [t \in Tasks |-> "off"]
    /\ call = [t \in Tasks |-> IdleCall]
    /\ pending = [t \in Tasks |-> DefaultConfig]
    /\ result = [t \in Tasks |-> "none"]
    /\ cluster = [c \in RemoteClusters |-> None]

\* KafkaConnector::default() / new()
ConnInit ==
    /\ clients = {}
    /\ config = DefaultConfig
    /\ semaphore = InitialPermits
    /\ lockR = [l \in Locks |-> {}]
    /\ pc = [t \in Tasks |-> "idle"]
    /\ call = [t \in Tasks |-> IdleCall]
    /\ pending = [t \in Tasks |-> DefaultConfig]
    /\ result = [t \in Tasks |-> "none"]
    /\ cluster = [c \in RemoteClusters |-> None]

\* What KafkaConnectorConfig::try_load(..)?.unwrap_or_default() yields: an
\* error, the default config when the file is absent, or the file's config.
LoadResults ==
    { [kind |-> "error", cfg |-> DefaultConfig], [kind |-> "absent", cfg |-> DefaultConfig] }
    \cup {[kind |-> "file", cfg |-> f] : f \in ConfigFiles}

\* init, up to its first store: load the config, build every client.
StartInit(t) ==
    /\ pc[t] = "idle"
    /\ \E load \in LoadResults, clientsOk \in BOOLEAN :
        IF load.kind = "error" \/ ~clientsOk
        THEN /\ result' = [result EXCEPT ![t] = "InitFailed"]
             /\ call' = [call EXCEPT ![t] = Returned("init", <<>>)]
             /\ UNCHANGED <<pc, pending>>
        ELSE /\ pending' = [pending EXCEPT ![t] = load.cfg]
             /\ pc' = [pc EXCEPT ![t] = "w_config"]
             /\ call' = [call EXCEPT ![t] = Call("init", <<>>, NoOp, "none", {})]
             /\ result' = [result EXCEPT ![t] = "none"]
    /\ UNCHANGED <<clients, config, semaphore, lockR, cluster>>

\* *self.config.write().await = config.clone();
InitStoreConfig(t) ==
    /\ pc[t] = "w_config"
    /\ lockR["config"] = {}
    /\ config' = pending[t]
    /\ pc' = [pc EXCEPT ![t] = "w_sem"]
    /\ UNCHANGED <<clients, semaphore, lockR, call, pending, result, cluster>>

\* *self.semaphore.write().await = Semaphore::new(config.concurrent_requests);
InitStoreSemaphore(t) ==
    /\ pc[t] = "w_sem"
    /\ lockR["semaphore"] = {}
    /\ semaphore' = pending[t].concurrent_requests
    /\ pc' = [pc EXCEPT ![t] = "w_clients"]
    /\ UNCHANGED <<clients, config, lockR, call, pending, result, cluster>>

\* *self.clients.write().await = clients;  Ok(())
InitStoreClients(t) ==
    /\ pc[t] = "w_clients"
    /\ lockR["clients"] = {}
    /\ clients' = pending[t].clusters
    /\ pending' = [pending EXCEPT ![t] = DefaultConfig]
    /\ Finish(t, "Ok")
    /\ UNCHANGED <<config, semaphore, cluster>>

\* A reader takes the read guard of `clients` (op_exec.rs:20, get.rs:20,
\* list.rs:10).
LockClients(t) ==
    /\ pc[t] = "rd_clients"
    /\ ~WriterWaiting("clients")
    /\ lockR' = ReadLocked(t, "clients")
    /\ pc' = [pc EXCEPT ![t] = "rd_config"]
    /\ UNCHANGED <<clients, config, semaphore, call, pending, result, cluster>>

\* Variant of StartOpExec: the Acl and Quota arms match on the operation as
\* the Topic arm does and reject a topic operation.
StartOpExecMatchesKind(t) ==
    /\ pc[t] = "idle"
    /\ \E c \in OpExecCalls :
        LET path == c[1]
            op   == c[2]
            a    == AddrOf[path]
        IN
        IF a.tag # "Ok" THEN
            /\ result' = [result EXCEPT ![t] = "InvalidAddress"]
            /\ call' = [call EXCEPT ![t] = ReturnedOp(path, op)]
            /\ UNCHANGED pc
        ELSE IF a.addr.kind = "Config" THEN
            /\ result' = [result EXCEPT ![t] = "InvalidOp"]
            /\ call' = [call EXCEPT ![t] = ReturnedOp(path, op)]
            /\ UNCHANGED pc
        ELSE IF a.addr.kind \in {"Acl", "Quota"} THEN
            /\ result' = [result EXCEPT ![t] =
                            IF op.op \in TopicOps THEN "InvalidOp" ELSE "NotYetImplemented"]
            /\ call' = [call EXCEPT ![t] = ReturnedOp(path, op)]
            /\ UNCHANGED pc
        ELSE
            /\ pc' = [pc EXCEPT ![t] = "rd_clients"]
            /\ call' = [call EXCEPT ![t] = Call("op_exec", path, op, "none", {})]
            /\ result' = [result EXCEPT ![t] = "none"]
    /\ UNCHANGED <<clients, config, semaphore, lockR, pending, cluster>>

\* do_op_exec up to the first lock: decode the address, dispatch on its kind.
StartOpExec(t) ==
    /\ pc[t] = "idle"
    /\ \E c \in OpExecCalls :
        LET path == c[1]
            op   == c[2]
            a    == AddrOf[path]
        IN
        IF a.tag # "Ok" THEN
            /\ result' = [result EXCEPT ![t] = "InvalidAddress"]
            /\ call' = [call EXCEPT ![t] = ReturnedOp(path, op)]
            /\ UNCHANGED pc
        ELSE IF a.addr.kind = "Config" THEN
            /\ result' = [result EXCEPT ![t] = "InvalidOp"]
            /\ call' = [call EXCEPT ![t] = ReturnedOp(path, op)]
            /\ UNCHANGED pc
        ELSE IF a.addr.kind \in {"Acl", "Quota"} THEN
            /\ result' = [result EXCEPT ![t] = "NotYetImplemented"]
            /\ call' = [call EXCEPT ![t] = ReturnedOp(path, op)]
            /\ UNCHANGED pc
        ELSE
            /\ pc' = [pc EXCEPT ![t] = "rd_clients"]
            /\ call' = [call EXCEPT ![t] = Call("op_exec", path, op, "none", {})]
            /\ result' = [result EXCEPT ![t] = "none"]
    /\ UNCHANGED <<clients, config, semaphore, lockR, pending, cluster>>

\* Variant of OpExecLockConfig: the client is taken from the registry
\* without checking that the cluster is a key.
OpExecLockConfigNoLookup(t) ==
    /\ pc[t] = "rd_config"
    /\ call[t].kind = "op_exec"
    /\ ~WriterWaiting("config")
    /\ IF ~IssuesRemoteCall(call[t].op) THEN
            Finish(t, "InvalidOp")
       ELSE
            /\ lockR' = ReadLocked(t, "config")
            /\ pc' = [pc EXCEPT ![t] = "remote"]
            /\ call' = [call EXCEPT ![t].sent = @ + 1]
            /\ UNCHANGED result
    /\ UNCHANGED <<clients, config, semaphore, pending, cluster>>

\* do_op_exec: take the read guard of `config`, look the client up, match on
\* the operation and issue its remote call.
OpExecLockConfig(t) ==
    /\ pc[t] = "rd_config"
    /\ call[t].kind = "op_exec"
    /\ ~WriterWaiting("config")
    /\ LET a == AddrOf[call[t].path].addr IN
        IF a.cluster \notin clients THEN
            Finish(t, "ClusterNotFound")
        ELSE IF ~IssuesRemoteCall(call[t].op) THEN
            Finish(t, "InvalidOp")
        ELSE
            /\ lockR' = ReadLocked(t, "config")
            /\ pc' = [pc EXCEPT ![t] = "remote"]
            /\ call' = [call EXCEPT ![t].sent = @ + 1]
            /\ UNCHANGED result
    /\ UNCHANGED <<clients, config, semaphore, pending, cluster>>

\* Variant of OpExecReturn: a call-level failure is answered by issuing the
\* admin call once more.
OpExecReturnRetries(t) ==
    /\ pc[t] = "remote"
    /\ call[t].kind = "op_exec"
    /\ LET c == AddrOf[call[t].path].addr.cluster IN
       \E outcome \in Outcomes :
        /\ c \notin RemoteClusters => outcome # "ok"
        /\ (outcome = "ok" /\ c \in RemoteClusters) => RemoteAccepts(cluster[c], call[t].op)
        /\ cluster' = IF c \in RemoteClusters
                      THEN [cluster EXCEPT ![c] = RemoteAfter(@, call[t].op, outcome)]
                      ELSE cluster
        /\ IF outcome = "call_err" /\ call[t].sent < 2
           THEN /\ call' = [call EXCEPT ![t].sent = @ + 1]
                /\ UNCHANGED <<pc, lockR, result>>
           ELSE Answer(t, TopicExecResult(call[t].op, outcome), outcome)
    /\ UNCHANGED <<clients, config, semaphore, pending>>

\* do_op_exec: the remote call returns; its result is turned into the
\* response and the guards are dropped.
OpExecReturn(t) ==
    /\ pc[t] = "remote"
    /\ call[t].kind = "op_exec"
    /\ LET c == AddrOf[call[t].path].addr.cluster IN
       \E outcome \in Outcomes :
        /\ c \notin RemoteClusters => outcome # "ok"
        /\ (outcome = "ok" /\ c \in RemoteClusters) => RemoteAccepts(cluster[c], call[t].op)
        /\ cluster' = IF c \in RemoteClusters
                      THEN [cluster EXCEPT ![c] = RemoteAfter(@, call[t].op, outcome)]
                      ELSE cluster
        /\ Answer(t, TopicExecResult(call[t].op, outcome), outcome)
    /\ UNCHANGED <<clients, config, semaphore, pending>>

\* do_get up to the first lock.
StartGet(t) ==
    /\ pc[t] = "idle"
    /\ \E path \in CallPaths :
        LET a == AddrOf[path] IN
        IF a.tag # "Ok" THEN
            /\ result' = [result EXCEPT ![t] = "InvalidAddress"]
            /\ call' = [call EXCEPT ![t] = Returned("get", path)]
            /\ UNCHANGED pc
        ELSE IF a.addr.kind # "Topic" THEN
            /\ result' = [result EXCEPT ![t] = "OkNone"]
            /\ call' = [call EXCEPT ![t] = Returned("get", path)]
            /\ UNCHANGED pc
        ELSE
            /\ pc' = [pc EXCEPT ![t] = "rd_clients"]
            /\ call' = [call EXCEPT ![t] = Call("get", path, NoOp, "none", {})]
            /\ result' = [result EXCEPT ![t] = "none"]
    /\ UNCHANGED <<clients, config, semaphore, lockR, pending, cluster>>

\* do_get: take the read guard of `config`, look the client up, issue
\* describe_configs.
GetLockConfig(t) ==
    /\ pc[t] = "rd_config"
    /\ call[t].kind = "get"
    /\ ~WriterWaiting("config")
    /\ IF AddrOf[call[t].path].addr.cluster \notin clients
       THEN Finish(t, "ClusterNotFound")
       ELSE /\ lockR' = ReadLocked(t, "config")
            /\ pc' = [pc EXCEPT ![t] = "remote"]
            /\ call' = [call EXCEPT ![t].sent = @ + 1]
            /\ UNCHANGED result
    /\ UNCHANGED <<clients, config, semaphore, pending, cluster>>

\* do_get: describe_configs returns; on an entry, fetch_metadata is called.
GetDescribeReturn(t) ==
    /\ pc[t] = "remote"
    /\ call[t].kind = "get"
    /\ \E outcome \in Outcomes :
        CASE outcome = "call_err" -> Finish(t, "RemoteOperationFailure")
          [] outcome = "empty"    -> Finish(t, "OkNone")
          [] OTHER ->
                /\ call' = [call EXCEPT ![t].desc = outcome, ![t].sent = @ + 1]
                /\ pc' = [pc EXCEPT ![t] = "remote2"]
                /\ UNCHANGED <<lockR, result>>
    /\ UNCHANGED <<clients, config, semaphore, pending, cluster>>

\* do_get: fetch_metadata returns; the topic is assembled.
GetMetadataReturn(t) ==
    /\ pc[t] = "remote2"
    /\ call[t].kind = "get"
    /\ LET c == AddrOf[call[t].path].addr.cluster IN
       \E metaOk \in BOOLEAN :
        IF ~metaOk \/ c \notin RemoteClusters THEN Finish(t, "OkNone")
        ELSE IF cluster[c] = None THEN Finish(t, "OkNone")
        ELSE IF call[t].desc = "item_err" THEN Finish(t, "RemoteOperationFailure")
        ELSE Finish(t, "OkSome")
    /\ UNCHANGED <<clients, config, semaphore, pending, cluster>>

\* Variant of ConnPlan: the planner takes the read guard of `clients`, as
\* the executor does, and keeps it.
ConnPlanTakesGuard(t) ==
    /\ pc[t] = "idle"
    /\ \E inp \in PlanCalls :
        LET res == PlanAnswer[inp] IN
        /\ call' = [call EXCEPT ![t] =
                        [Returned("plan", inp.path) EXCEPT
                            !.plan = PlanRecord(inp.cur, inp.des, res, clients)]]
        /\ result' = [result EXCEPT ![t] = IF res.tag = "Ok" THEN "Ok" ELSE res.err]
    /\ lockR' = ReadLocked(t, "clients")
    /\ UNCHANGED <<clients, config, semaphore, pc, pending, cluster>>

\* plan: do_plan takes no guard and makes no remote call; it computes its
\* answer from its three arguments and returns.
ConnPlan(t) ==
    /\ pc[t] = "idle"
    /\ \E inp \in PlanCalls :
        LET res == PlanAnswer[inp] IN
        /\ call' = [call EXCEPT ![t] =
                        [Returned("plan", inp.path) EXCEPT
                            !.plan = PlanRecord(inp.cur, inp.des, res, clients)]]
        /\ result' = [result EXCEPT ![t] = IF res.tag = "Ok" THEN "Ok" ELSE res.err]
    /\ UNCHANGED <<clients, config, semaphore, lockR, pc, pending, cluster>>

\* do_list up to the first lock; the subpath selects every cluster or one.
StartList(t) ==
    /\ pc[t] = "idle"
    /\ \E sub \in {<<>>, ClusterA} :
        call' = [call EXCEPT ![t] = Call("list", sub, NoOp, "none", {})]
    /\ pc' = [pc EXCEPT ![t] = "rd_clients"]
    /\ result' = [result EXCEPT ![t] = "none"]
    /\ UNCHANGED <<clients, config, semaphore, lockR, pending, cluster>>

\* do_list: take the read guard of `config` and start on the clusters that
\* match the subpath.
ListLockConfig(t) ==
    /\ pc[t] = "rd_config"
    /\ call[t].kind = "list"
    /\ ~WriterWaiting("config")
    /\ LET matching == {c \in clients : call[t].path = <<>> \/ call[t].path = c} IN
        IF matching = {} THEN Finish(t, "Ok")
        ELSE /\ lockR' = ReadLocked(t, "config")
             /\ call' = [call EXCEPT ![t].rem = matching, ![t].sent = @ + 1]
             /\ pc' = [pc EXCEPT ![t] = "list_remote"]
             /\ UNCHANGED result
    /\ UNCHANGED <<clients, config, semaphore, pending, cluster>>

\* do_list: fetch_metadata of one cluster returns (its failure is logged and
\* skipped); the loop goes on to the next cluster or returns.
ListFetchReturn(t) ==
    /\ pc[t] = "list_remote"
    /\ \E c \in call[t].rem :
        IF call[t].rem = {c} THEN Finish(t, "Ok")
        ELSE /\ call' = [call EXCEPT ![t].rem = @ \ {c}, ![t].sent = @ + 1]
             /\ UNCHANGED <<pc, lockR, result>>
    /\ UNCHANGED <<clients, config, semaphore, pending, cluster>>

\* subpaths: queue for the read guard of `config`.
StartSubpaths(t) ==
    /\ pc[t] = "idle"
    /\ pc' = [pc EXCEPT ![t] = "sub_config"]
    /\ call' = [call EXCEPT ![t] = Call("subpaths", <<>>, NoOp, "none", {})]
    /\ result' = [result EXCEPT ![t] = "none"]
    /\ UNCHANGED <<clients, config, semaphore, lockR, pending, cluster>>

\* subpaths: under the read guard of `config`, one path per cluster of the
\* stored configuration; the guard is dropped on return.
SubpathsReturn(t) ==
    /\ pc[t] = "sub_config"
    /\ ~WriterWaiting("config")
    /\ Finish(t, "Ok")
    /\ UNCHANGED <<clients, config, semaphore, pending, cluster>>

ConnNext ==
    /\ \E t \in Tasks :
        \/ StartInit(t) \/ InitStoreConfig(t) \/ InitStoreSemaphore(t) \/ InitStoreClients(t)
        \/ LockClients(t)
        \/ StartOpExec(t) \/ OpExecLockConfig(t) \/ OpExecReturn(t)
        \/ StartGet(t) \/ GetLockConfig(t) \/ GetDescribeReturn(t) \/ GetMetadataReturn(t)
        \/ StartList(t) \/ ListLockConfig(t) \/ ListFetchReturn(t)
        \/ ConnPlan(t)
        \/ StartSubpaths(t) \/ SubpathsReturn(t)
    /\ UNCHANGED <<codecVars, planVars, reqVars>>

-----------------------------------------------------------------------------
(* Specifications *)

\* The connector serving concurrent calls.
Init == ConnInit /\ CodecIdle /\ PlanIdle /\ ReqIdle
Next == ConnNext
Spec == Init /\ [][Next]_vars

\* The steps by which a call of task t that has started goes on: a guard is
\* granted, a store is made, a remote call returns.
Progress(t) ==
    /\ \/ InitStoreConfig(t) \/ InitStoreSemaphore(t) \/ InitStoreClients(t)
       \/ LockClients(t)
       \/ OpExecLockConfig(t) \/ OpExecReturn(t)
       \/ GetLockConfig(t) \/ GetDescribeReturn(t) \/ GetMetadataReturn(t)
       \/ ListLockConfig(t) \/ ListFetchReturn(t)
       \/ SubpathsReturn(t)
    /\ UNCHANGED <<codecVars, planVars, reqVars>>

\* The connector serving concurrent calls, every remote call returning and
\* the locks granting every waiter its turn (tokio's RwLock is fair).
\* The arguments the calls are given when termination is checked: one per
\* path through each handler's locking.
LiveCalls ==
    \A t \in Tasks :
        /\ call'[t].kind = "op_exec" =>
                <<call'[t].path, call'[t].op>> \in
                    {<<TopicPathA, CreateTopic(DefaultTopic)>>, <<TopicPathA, DeleteTopic>>,
                     <<TopicPathA, CreateAcl(DefaultAcl)>>,
                     <<TopicPathB, CreateTopic(DefaultTopic)>>,
                     <<AclPathA, DeleteTopic>>, <<ConfigPath, DeleteTopic>>}
        /\ call'[t].kind = "get"  => call'[t].path \in {TopicPathA, TopicPathB, ConfigPath}
        /\ call'[t].kind = "plan" => call'[t].path = TopicPathA

NextLive == Next /\ LiveCalls
SpecLive == Init /\ [][NextLive]_vars /\ \A t \in Tasks : SF_vars(Progress(t))

\* The address codec applied to every input.
InitCodec == CodecInit /\ PlanIdle /\ ReqIdle /\ ConnIdle
SpecCodec == InitCodec /\ [][CodecNext]_vars

\* The planner and the executor on one topic.
InitPlan == PlanInit /\ CodecIdle /\ ReqIdle /\ ConnIdle
SpecPlan == InitPlan /\ [][PlanNext]_vars

\* do_plan and from_bytes on every kind of address.
InitKinds == ReqInit /\ CodecIdle /\ PlanIdle /\ ConnIdle
SpecKinds == InitKinds /\ [][ReqNext]_vars

-----------------------------------------------------------------------------
(* Properties *)

\* The plan inputs of the planner run, decoded.
CurT == TopicFromBytes(PlanAddr, current[1]).val
DesT == TopicFromBytes(PlanAddr, desired[1]).val

\* plan has run on (current, desired) and planRes is its result.
Planned == planPc \in {"planned", "done", "failed", "rejected"}

\* Both payloads are present and decode: the topic exists and is to be kept.
BothPresent ==
    /\ current # None
    /\ desired # None
    /\ TopicFromBytes(PlanAddr, current[1]).tag = "Ok"
    /\ TopicFromBytes(PlanAddr, desired[1]).tag = "Ok"

ValidationErrors == {"UnsupportedTransition", "ImmutableFieldViolation"}

\* C1: the remote admin calls in flight, over all clusters, never exceed
\* concurrent_requests (each would hold one permit of the gate).
C1_PermitGate == Cardinality(InFlight) <= config.concurrent_requests

\* C2: once every planned operation has been executed with success, the live
\* topic equals the desired one (existence, partitions, replication_factor,
\* config) and planning the live state against desired yields nothing.
C2_Converges ==
    planPc = "done" =>
        /\ IF desired = None THEN live = None ELSE live = Some(LiveOf(DesT))
        /\ PlanTopic(PlanAddr, DoGetTopic(live), desired) = PlanOk(<<>>)

\* C2 witness: a plan of two operations was executed to its end.
W_C2 ==
    /\ planPc = "done"
    /\ Len(planRes.ops) = 2
    /\ lastOp = planRes.ops[2]
    /\ live = Some(LiveOf(DesT))

\* C3: decoding the encoding of an address returns that address.
C3_RoundTrip ==
    (codecPc = "decoded" /\ codecIn.tag = "addr") => codecOut = Ok(codecIn.addr)

\* C4: from_path returns an address or InvalidAddress for every path; it
\* never panics.
C4_NeverPanics ==
    (codecPc = "decoded" /\ codecIn.tag = "path") => codecOut.tag \in {"Ok", "Err"}

\* C5: for an existing topic, fewer desired partitions than current ones give
\* a validation error and no operation, whatever else differs.
C5_DecreaseRejected ==
    (Planned /\ BothPresent /\ DesT.partitions < CurT.partitions) =>
        /\ planRes.tag = "Err"
        /\ planRes.err \in ValidationErrors
        /\ planRes.ops = <<>>

\* C5 witness: a decrease rejected while replication_factor and config differ too.
W_C5 ==
    /\ planPc = "rejected"
    /\ BothPresent
    /\ DesT.partitions < CurT.partitions
    /\ DesT.replication_factor # CurT.replication_factor
    /\ Pairs(DesT.config) # Pairs(CurT.config)

\* C6: for an existing topic, a different replication_factor gives a
\* validation error and no operation list, also when partitions increase or
\* config changes in the same request.
C6_ReplicationImmutable ==
    (Planned /\ BothPresent /\ DesT.replication_factor # CurT.replication_factor) =>
        /\ planRes.tag = "Err"
        /\ planRes.err \in ValidationErrors
        /\ planRes.ops = <<>>

\* C6 witness: rejected although the partitions increase and the config changes.
W_C6 ==
    /\ planPc = "rejected"
    /\ BothPresent
    /\ DesT.replication_factor # CurT.replication_factor
    /\ DesT.partitions > CurT.partitions
    /\ Pairs(DesT.config) # Pairs(CurT.config)
    /\ planRes.err = "ImmutableFieldViolation"

\* C7: while the topic keeps existing, no step of plan-then-execute lowers
\* its partitions or changes its replication_factor.
C7_Monotonic ==
    [][(live # None /\ live' # None) =>
        /\ live'[1].partitions >= live[1].partitions
        /\ live'[1].replication_factor = live[1].replication_factor]_vars

\* C7 witness: a planned UpdateTopicPartitions has been executed on the topic.
W_C7 ==
    /\ planPc = "done"
    /\ lastOp.op = "UpdateTopicPartitions"
    /\ live # None
    /\ live[1].partitions = lastOp.partitions

\* C8: more desired partitions, same replication_factor, same config: the
\* plan is exactly [UpdateTopicPartitions{desired.partitions}].
C8_PartitionsOnly ==
    ( /\ Planned /\ BothPresent
      /\ DesT.partitions > CurT.partitions
      /\ DesT.replication_factor = CurT.replication_factor
      /\ Pairs(DesT.config) = Pairs(CurT.config) ) =>
        planRes = PlanOk(<<UpdateTopicPartitions(DesT.partitions)>>)

\* C8 witness: such a plan, here from 1 partition to MaxPartitions.
W_C8 ==
    /\ planPc = "planned"
    /\ BothPresent
    /\ CurT.partitions = 1
    /\ DesT.partitions = MaxPartitions
    /\ DesT.replication_factor = CurT.replication_factor
    /\ Pairs(DesT.config) = Pairs(CurT.config)
    /\ Len(planRes.ops) = 1

\* C9: same partitions and replication_factor: UpdateTopicConfig is planned
\* iff the two configs differ as sets of key/value pairs, and then it is the
\* only operation and carries the whole desired map.
C9_ConfigDiff ==
    ( /\ Planned /\ BothPresent
      /\ DesT.partitions = CurT.partitions
      /\ DesT.replication_factor = CurT.replication_factor ) =>
        /\ planRes.tag = "Ok"
        /\ (\E i \in 1..Len(planRes.ops) : planRes.ops[i].op = "UpdateTopicConfig")
              <=> (Pairs(DesT.config) # Pairs(CurT.config))
        /\ (Pairs(DesT.config) # Pairs(CurT.config))
              => planRes.ops = <<UpdateTopicConfig(DesT.config)>>

\* C9 witness: one value of a two-entry config changes and the plan is the
\* one operation with both desired entries.
W_C9 ==
    /\ Planned /\ BothPresent
    /\ DesT.partitions = CurT.partitions
    /\ DesT.replication_factor = CurT.replication_factor
    /\ Len(DesT.config) = 2
    /\ Keys(DesT.config) = Keys(CurT.config)
    /\ Pairs(DesT.config) # Pairs(CurT.config)
    /\ Len(planRes.ops) = 1
    /\ planRes.ops[1].config = DesT.config

\* C10: partitions increase and config changes (same replication_factor):
\* the plan is UpdateTopicPartitions then UpdateTopicConfig, and executing
\* the two in either order leaves the topic in the same state.
C10_TwoOpsCommute ==
    ( /\ Planned /\ BothPresent
      /\ DesT.partitions > CurT.partitions
      /\ DesT.replication_factor = CurT.replication_factor
      /\ Pairs(DesT.config) # Pairs(CurT.config) ) =>
        /\ planRes = PlanOk(<<UpdateTopicPartitions(DesT.partitions),
                              UpdateTopicConfig(DesT.config)>>)
        /\ (planPc = "planned" /\ todo = planRes.ops) =>
            /\ RemoteAccepts(live, todo[2])
            /\ RemoteAccepts(RemoteApply(live, todo[2]), todo[1])
            /\ ApplyAll(live, <<todo[2], todo[1]>>) = ApplyAll(live, todo)

\* C10 witness: the two-operation plan, nothing of it executed yet.
W_C10 ==
    /\ planPc = "planned"
    /\ BothPresent
    /\ Len(todo) = 2
    /\ todo = planRes.ops
    /\ live # None
    /\ ApplyAll(live, todo) = Some(LiveOf(DesT))


\* The decoded inputs of the do_plan run.
ReqKind == IF FromPath(reqPath).tag = "Ok" THEN FromPath(reqPath).addr.kind ELSE "none"
CurR    == FromBytes(FromPath(reqPath).addr, reqCur[1])
DesR    == FromBytes(FromPath(reqPath).addr, reqDes[1])
ReqPlanned == reqPc = "planned"

\* C11: for an Acl address with current and desired both present and any
\* field differing, the plan is exactly DeleteAcl(current) followed by
\* CreateAcl(desired); the create never comes before the delete.
C11_AclReplace ==
    (ReqPlanned /\ ReqKind = "Acl" /\ reqCur # None /\ reqDes # None
        /\ CurR.tag = "Ok" /\ DesR.tag = "Ok" /\ CurR.val # DesR.val)
    => reqRes = PlanOk(<<DeleteAcl(CurR.val), CreateAcl(DesR.val)>>)

W_C11 ==
    /\ ReqPlanned /\ ReqKind = "Acl" /\ reqCur # None /\ reqDes # None
    /\ CurR.tag = "Ok" /\ DesR.tag = "Ok"
    /\ CurR.val.permission # DesR.val.permission
    /\ Len(reqRes.ops) = 2
    /\ reqRes.ops[1].op = "DeleteAcl"

\* C12: for a Quota address with current and desired both present, the plan
\* is empty when the two quotas are equal in every field (unset distinct
\* from zero) and is exactly one UpdateQuota(desired) otherwise.
C12_QuotaUpdate ==
    (ReqPlanned /\ ReqKind = "Quota" /\ reqCur # None /\ reqDes # None
        /\ CurR.tag = "Ok" /\ DesR.tag = "Ok")
    => IF CurR.val = DesR.val
       THEN reqRes = PlanOk(<<>>)
       ELSE reqRes = PlanOk(<<UpdateQuota(DesR.val)>>)

ResourceKinds == {"Topic", "Acl", "Quota"}

\* The Create* operation of an address kind.
CreateOf(kind, v) ==
    CASE kind = "Topic" -> CreateTopic(v)
      [] kind = "Acl"   -> CreateAcl(v)
      [] OTHER          -> CreateQuota(v)

\* C13: for every resource kind, a plan with current absent and desired
\* present is exactly one Create* operation whose payload is the whole
\* decoded desired value.
C13_CreateFromAbsent ==
    (ReqPlanned /\ ReqKind \in ResourceKinds /\ reqCur = None /\ reqDes # None
        /\ DesR.tag = "Ok")
    => reqRes = PlanOk(<<CreateOf(ReqKind, DesR.val)>>)

W_C13 ==
    /\ ReqPlanned /\ ReqKind = "Quota" /\ reqCur = None /\ reqDes # None
    /\ DesR.tag = "Ok" /\ DesR.val # DefaultQuota
    /\ Len(reqRes.ops) = 1
    /\ reqRes.ops[1].op = "CreateQuota"

\* The case of C14: current present and decodable, desired absent.
DeleteCase ==
    /\ ReqPlanned /\ ReqKind \in ResourceKinds
    /\ reqCur # None /\ reqDes = None
    /\ CurR.tag = "Ok"

\* C14 as stated: a plan with current present and desired absent is exactly
\* one Delete* operation, which carries the decoded current value for an
\* Acl and for a Quota and no payload for a Topic.
C14_DeleteCarriesCurrent ==
    DeleteCase =>
        /\ reqRes.tag = "Ok"
        /\ Len(reqRes.ops) = 1
        /\ CASE ReqKind = "Topic" -> reqRes.ops[1] = DeleteTopic
              [] ReqKind = "Acl"   -> reqRes.ops[1] = DeleteAcl(CurR.val)
              [] OTHER             -> /\ reqRes.ops[1].op = "DeleteQuota"
                                      /\ reqRes.ops[1].res = Some(CurR.val)

\* C14, amended: a plan with current present and desired absent is exactly
\* one Delete* operation, which carries the decoded current value for an
\* Acl and no payload for a Topic and for a Quota.
C14_Delete ==
    DeleteCase =>
        reqRes = PlanOk(<<CASE ReqKind = "Topic" -> DeleteTopic
                            [] ReqKind = "Acl"   -> DeleteAcl(CurR.val)
                            [] OTHER             -> DeleteQuota>>)

W_C14 ==
    /\ DeleteCase /\ ReqKind = "Quota"
    /\ CurR.val # DefaultQuota
    /\ Len(reqRes.ops) = 1
    /\ reqRes.ops[1].op = "DeleteQuota"
    /\ reqRes.ops[1].res = None

\* C15: for a Topic, Acl or Quota address, a plan given a malformed payload
\* (current or desired) fails with a deserialize error and no operations,
\* also when the malformed payload is the current one and desired is absent.
C15_MalformedRejected ==
    (ReqPlanned /\ ReqKind \in ResourceKinds
        /\ \/ (reqCur # None /\ CurR.tag = "Err")
           \/ (reqDes # None /\ DesR.tag = "Err"))
    => reqRes = PlanErr("DeserializeFailure")

\* The fields a document must hold for an address kind: every field of a
\* topic and of an ACL, and the entity list of a quota (its rates are
\* optional).
RequiredFields(kind) ==
    CASE kind = "Topic" -> {"partitions", "replication_factor", "config"}
      [] kind = "Acl"   -> AclFields
      [] OTHER          -> {"entities"}

MissingRequired(kind, doc) ==
    \E f \in RequiredFields(kind) : f \notin DOMAIN doc \/ doc[f] = None

UnknownField(kind, doc) ==
    doc.extra \/ (DocOf(doc) # kind /\ HasFields(doc))

ReqParsed == reqPc = "parsed" /\ ReqKind \in ResourceKinds

\* C16 as stated: deserializing a payload for a Topic, Acl or Quota address
\* fails whenever a required field is missing or an unknown field is
\* present; no missing field is filled with a default.
C16_ClosedSchema ==
    (ReqParsed /\ (MissingRequired(ReqKind, reqDes[1]) \/ UnknownField(ReqKind, reqDes[1])))
    => reqParse.tag = "Err"

\* C16, amended: deserializing fails whenever an unknown field is present,
\* and for an Acl or Quota address whenever a required field is missing; a
\* topic document that leaves a field out and has no unknown field is
\* accepted, the field taking its value from KafkaTopic::default().
C16_ClosedSchemaTopicDefaults ==
    ReqParsed =>
        /\ UnknownField(ReqKind, reqDes[1]) => reqParse.tag = "Err"
        /\ (ReqKind # "Topic" /\ MissingRequired(ReqKind, reqDes[1]))
                => reqParse.tag = "Err"
        /\ (ReqKind = "Topic" /\ ~UnknownField(ReqKind, reqDes[1]))
                => /\ reqParse.tag = "Ok"
                   /\ \A f \in RequiredFields("Topic") :
                        reqParse.val[f] =
                            IF f \notin DOMAIN reqDes[1] \/ reqDes[1][f] = None
                            THEN DefaultTopic[f] ELSE reqDes[1][f][1]

W_C16 ==
    /\ ReqParsed /\ ReqKind = "Topic"
    /\ reqDes[1] = Doc(Some(2), None, None, FALSE)
    /\ reqParse = ParseOk(KafkaTopic(2, 1, <<>>))

\* C17: for the Config address and for the Task address, plan succeeds
\* with an empty operation list for every combination of current and
\* desired.
C17_ConfigTaskEmpty ==
    (ReqPlanned /\ reqPath \in {ToPathBuf(ConfigAddr), ToPathBuf(TaskAddr)})
    => reqRes = PlanOk(<<>>)

PlanStep(t) == call'[t].kind = "plan" /\ call'[t] # call[t]

\* A step of init's three stores.
InitStoreStep ==
    \E t \in Tasks :
        /\ call[t].kind = "init"
        /\ pc[t] \in {"w_config", "w_sem", "w_clients"}
        /\ pc'[t] # pc[t]

\* C19: plan has no side effect: it makes no remote call, takes no guard
\* and leaves the registry, the config and the permit gate as they are;
\* only init changes those three.
C19_PlanPure ==
    [][ /\ \A t \in Tasks :
            PlanStep(t) =>
                /\ clients' = clients /\ config' = config /\ semaphore' = semaphore
                /\ lockR' = lockR
                /\ cluster' = cluster
                /\ InFlight' = InFlight
                /\ pc'[t] = "idle"
        /\ (clients' # clients \/ config' # config \/ semaphore' # semaphore)
                => InitStoreStep ]_vars

W_C19 ==
    \E t1 \in Tasks, t2 \in Tasks :
        /\ call[t1].kind = "plan"
        /\ call[t1].plan.seen = clients
        /\ clients # {}
        /\ pc[t2] = "remote"
        /\ lockR["clients"] = {t2}

\* The step of op_exec on a Topic address in which the registry is read.
TopicLookupStep(t) ==
    /\ call[t].kind = "op_exec"
    /\ pc[t] = "rd_config"
    /\ pc'[t] # "rd_config"

\* The step in which op_exec on an Acl or Quota address returns.
AclQuotaStep(t) ==
    /\ pc[t] = "idle" /\ pc'[t] = "idle"
    /\ call'[t] # call[t]
    /\ call'[t].kind = "op_exec"
    /\ AddrOf[call'[t].path].tag = "Ok"
    /\ AddrOf[call'[t].path].addr.kind \in {"Acl", "Quota"}

\* op_exec of task t fails with ClusterNotFound: no remote call is issued
\* and no guard is kept.
Miss(t) ==
    /\ result'[t] = "ClusterNotFound"
    /\ pc'[t] = "idle"
    /\ \A l \in Locks : t \notin lockR'[l]
    /\ clients' = clients
    /\ cluster' = cluster

\* C20 as stated: op_exec on a Topic, Acl or Quota address whose cluster is
\* not a key of the registry fails with ClusterNotFound, issues no remote
\* call and leaves the registry usable.
C20_ClusterNotFound ==
    [][ \A t \in Tasks :
            /\ (TopicLookupStep(t) /\ AddrOf[call[t].path].addr.cluster \notin clients)
                    => Miss(t)
            /\ (AclQuotaStep(t) /\ AddrOf[call'[t].path].addr.cluster \notin clients)
                    => Miss(t) ]_vars

\* C20, amended: op_exec on a Topic address whose cluster is not a key of
\* the registry fails with ClusterNotFound, issues no remote call and
\* leaves the registry usable; on an Acl or Quota address op_exec does not
\* read the registry and returns its not-yet-implemented response whether
\* or not the cluster is a key.
C20_TopicClusterNotFound ==
    [][ \A t \in Tasks :
            /\ (TopicLookupStep(t) /\ AddrOf[call[t].path].addr.cluster \notin clients)
                    => Miss(t)
            /\ AclQuotaStep(t) =>
                    /\ result'[t] = "NotYetImplemented"
                    /\ lockR' = lockR
                    /\ clients' = clients
                    /\ cluster' = cluster ]_vars

W_C20 ==
    \E t \in Tasks :
        /\ pc[t] = "idle"
        /\ call[t].kind = "op_exec"
        /\ call[t].path = TopicPathB
        /\ result[t] = "ClusterNotFound"
        /\ ClusterA \in clients
        /\ \A l \in Locks : t \notin lockR[l]

\* An op_exec call of task t on a Topic address that has returned from its
\* remote call.
Answered(t) ==
    /\ pc[t] = "idle"
    /\ call[t].kind = "op_exec"
    /\ call[t].op.op \in TopicOps
    /\ call[t].sent > 0

\* C21: for each of the four topic operations, when the remote call
\* succeeds but its result array is empty, op_exec fails with
\* NoResultReturned and never reports success.
C21_NoResultReturned ==
    \A t \in Tasks :
        (Answered(t) /\ call[t].desc = "empty") => result[t] = "NoResultReturned"

W_C21 ==
    /\ Answered("t1") /\ call["t1"].desc = "empty"
    /\ call["t1"].op.op = "DeleteTopic"
    /\ result["t1"] = "NoResultReturned"
    /\ Answered("t2") /\ call["t2"].desc = "empty"
    /\ call["t2"].op.op = "UpdateTopicConfig"
    /\ result["t2"] = "NoResultReturned"

\* C22: an op_exec call issues at most one remote admin call; when that
\* call fails, at call level or in its first entry, op_exec returns the
\* error having issued it once; op_exec succeeds on a Topic address only
\* when the call succeeded and its first entry reports success.
C22_SingleCall ==
    \A t \in Tasks :
        call[t].kind = "op_exec" =>
            /\ call[t].sent <= 1
            /\ (pc[t] = "idle" /\ call[t].desc \in {"call_err", "item_err"}) =>
                    /\ result[t] = "RemoteOperationFailure"
                    /\ call[t].sent = 1
            /\ (pc[t] = "idle" /\ result[t] = "Ok") =>
                    /\ call[t].desc = "ok"
                    /\ call[t].sent = 1

W_C22 ==
    /\ Answered("t1") /\ call["t1"].desc = "call_err"
    /\ result["t1"] = "RemoteOperationFailure"
    /\ Answered("t2") /\ call["t2"].desc = "ok"
    /\ result["t2"] = "Ok"
    /\ call["t2"].op.op = "CreateTopic"

\* C23: every operation executed on an Acl or Quota address issues no
\* remote call, changes no state of the connector or of a cluster, and
\* returns a successful response whose message says the operation is not
\* yet implemented (the result NotYetImplemented).
C23_AclQuotaStub ==
    [][ \A t \in Tasks :
            AclQuotaStep(t) =>
                /\ result'[t] = "NotYetImplemented"
                /\ call'[t].sent = 0
                /\ InFlight' = InFlight
                /\ UNCHANGED <<clients, config, semaphore, lockR, pending, cluster>> ]_vars

W_C23 ==
    /\ pc["t1"] = "idle"
    /\ call["t1"] = ReturnedOp(AclPathA, DeleteTopic)
    /\ result["t1"] = "NotYetImplemented"
    /\ pc["t2"] = "idle"
    /\ call["t2"] = ReturnedOp(QuotaPathA, DeleteQuota)
    /\ result["t2"] = "NotYetImplemented"

\* The configuration and the registry belong together: they are the pair
\* the constructor left or the pair one init stored.
CompletePair ==
    \/ config = DefaultConfig /\ clients = {}
    \/ clients = config.clusters

\* Task t holds the read guards of `clients` and of `config`, as op_exec,
\* get and list do from their second lock on.
HoldsBoth(t) == t \in lockR["clients"] /\ t \in lockR["config"]

\* C24: init is atomic with respect to readers: a reader that holds its
\* guards sees the configuration and the registry of one complete state,
\* before init or after it, never the new configuration with the old
\* client map.
C24_InitAtomic ==
    \A t \in Tasks : HoldsBoth(t) => CompletePair

\* C25: no interleaving of init, op_exec, get, list and subpaths deadlocks
\* on the three locks: provided every remote call returns, every call that
\* has started eventually returns.
C25_EveryCallCompletes ==
    \A t \in Tasks : (pc[t] # "idle") ~> (pc[t] = "idle")

\* An init waits for the write guard of `clients` while a reader holds both
\* read guards across its remote call.
W_C25 ==
    /\ pc["t1"] = "w_clients"
    /\ pc["t2"] = "remote"
    /\ HoldsBoth("t2")

\* The step in which an init of task t fails, in try_load or in building a
\* client.
InitFailStep(t) ==
    /\ pc[t] = "idle" /\ pc'[t] = "idle"
    /\ call'[t].kind = "init"
    /\ result'[t] = "InitFailed"
    /\ <<call[t].kind, result[t]>> # <<"init", "InitFailed">>

\* The step in which an init of task t makes its last store and returns Ok.
InitDoneStep(t) ==
    /\ pc[t] = "w_clients"
    /\ pc'[t] = "idle"

\* C26: a failed init leaves the configuration, the permit gate and the
\* registry exactly as they were; when init succeeds, the keys of the
\* registry are the cluster names of the stored configuration.
C26_InitAllOrNothing ==
    [][ \A t \in Tasks :
            /\ InitFailStep(t) => UNCHANGED <<config, semaphore, clients>>
            /\ InitDoneStep(t) => clients' = config'.clusters ]_vars

\* The first half of C26 alone.
C26_FailedInitKeepsState ==
    [][ \A t \in Tasks :
            InitFailStep(t) => UNCHANGED <<config, semaphore, clients>> ]_vars

\* The step in which op_exec of task t, given a path that decodes, returns
\* before taking any guard.
OpExecStartStep(t) ==
    /\ pc[t] = "idle" /\ pc'[t] = "idle"
    /\ call'[t] # call[t]
    /\ call'[t].kind = "op_exec"
    /\ AddrOf[call'[t].path].tag = "Ok"

\* The step of task t ends its call and issues no remote call.
NoRemote(t) ==
    /\ pc'[t] = "idle"
    /\ call'[t].sent = 0
    /\ InFlight' = InFlight

Rejected(t) == NoRemote(t) /\ result'[t] = "InvalidOp"

\* C27 as stated: a topic operation on an Acl or Quota address, an Acl or
\* Quota operation on a Topic address and any operation on the Config
\* address are each rejected with the invalid-operation error and cause no
\* remote call.
C27_KindMismatchRejected ==
    [][ \A t \in Tasks :
            /\ ( /\ OpExecStartStep(t)
                 /\ AddrOf[call'[t].path].addr.kind \in {"Acl", "Quota"}
                 /\ call'[t].op.op \in TopicOps ) => Rejected(t)
            /\ ( /\ OpExecStartStep(t)
                 /\ AddrOf[call'[t].path].addr.kind = "Config" ) => Rejected(t)
            /\ (TopicLookupStep(t) /\ call[t].op.op \notin TopicOps) => Rejected(t) ]_vars

\* C27, amended: any operation on the Config address, and an Acl or Quota
\* operation on a Topic address whose cluster is a key of the registry, are
\* rejected with the invalid-operation error; an Acl or Quota operation on
\* a Topic address whose cluster is not a key fails with ClusterNotFound;
\* an operation of any kind on an Acl or Quota address is not rejected but
\* answered with the not-yet-implemented response. None of these causes a
\* remote call.
C27_KindMismatch ==
    [][ \A t \in Tasks :
            /\ ( /\ OpExecStartStep(t)
                 /\ AddrOf[call'[t].path].addr.kind \in {"Acl", "Quota"} ) =>
                    NoRemote(t) /\ result'[t] = "NotYetImplemented"
            /\ ( /\ OpExecStartStep(t)
                 /\ AddrOf[call'[t].path].addr.kind = "Config" ) => Rejected(t)
            /\ (TopicLookupStep(t) /\ call[t].op.op \notin TopicOps) =>
                    /\ NoRemote(t)
                    /\ result'[t] = IF AddrOf[call[t].path].addr.cluster \in clients
                                     THEN "InvalidOp" ELSE "ClusterNotFound" ]_vars

W_C27 ==
    /\ pc["t1"] = "idle"
    /\ call["t1"].kind = "op_exec" /\ call["t1"].path = TopicPathA
    /\ call["t1"].op = CreateAcl(DefaultAcl)
    /\ result["t1"] = "InvalidOp"
    /\ call["t1"].sent = 0
    /\ call["t2"] = ReturnedOp(ConfigPath, DeleteTopic)
    /\ result["t2"] = "InvalidOp"

=============================================================================
